---- MODULE Spec2Model ----
(***************************************************************************)
(* Model of the OPC UA server core of gopcua (server.go): the Server and   *)
(* its accept loop (ListenAndServe / serve), the per-connection goroutine  *)
(* (handle) with its type switch, and the two built-in services            *)
(* (handleFindServers, handleGetEndpoints).  The uacp Listener and the     *)
(* uasc SecureChannel are collaborators whose results are drawn from the   *)
(* outcomes their contracts allow.                                         *)
(***************************************************************************)
EXTENDS Integers, Sequences, FiniteSets, TLC

(* ---------------------------- bounds ---------------------------------- *)
MaxConns == 2      \* connections the listener yields
MaxMsgs == 2       \* messages received over all channels

Conns == 1..MaxConns

(* ---------------------------- values ---------------------------------- *)
nil == "nil"
NoMsg == [typ |-> "none", chan |-> 0, rid |-> 0, seq |-> 0]
NoCfg == [SecurityPolicyURI |-> "unset", SecurityMode |-> "unset"]

ErrListen == "ErrListen"
ErrClosed == "ErrListenerClosed"
ErrTransport == "ErrTransport"
ErrCanceled == "ErrContextCanceled"
ErrSecureChannel == "ErrSecureChannel"
ErrEOF == "ErrEOF"
ErrProtocol == "ErrProtocol"
ErrWrite == "ErrWrite"

MsgTypes == {"FindServersRequest", "GetEndpointsRequest", "CreateSessionRequest"}
Endpoints == {"opc.tcp://localhost:4840"}
Handlers == {nil}
HandlerArgs == {"H1"}
\* var DefaultAck
DefaultAck == [ReceiveBufSize |-> 65535, SendBufSize |-> 65535,
               MaxMessageSize |-> 65536, MaxChunkCount |-> 256]
\* no Acknowledge: a nil *uacp.Acknowledge, or limits not yet settled
NoAck == [ReceiveBufSize |-> 0, SendBufSize |-> 0, MaxMessageSize |-> 0, MaxChunkCount |-> 0]
\* the values of Server.Ack: unset, or limits below the defaults
Acks == {NoAck, [ReceiveBufSize |-> 4096, SendBufSize |-> 4096,
               MaxMessageSize |-> 32768, MaxChunkCount |-> 64]}
\* the limits a peer proposes in its hello: each below or above the server's
Hellos == [ReceiveBufSize : {32, 100000}, SendBufSize : {32, 100000},
           MaxMessageSize : {32, 100000}, MaxChunkCount : {32, 100000}]
\* the option lists NewServer is called with
OptionLists == { <<>>, << [opt |-> "SecurityMode", val |-> "Sign"] >> }

VARIABLES
    endpointURL,   \* Server.endpointURL
    opts,          \* the options NewServer was called with
    Handler,       \* Server.Handler
    Ack,           \* Server.Ack
    cfg,           \* Server.cfg
    sessionCfg,    \* Server.sessionCfg
    sl,            \* Server.l: nil or the listener
    listener,      \* the uacp.Listener: "none", "open", "closed"
    closeRet,      \* what the latest Server.Close returned ("none" before any)
    ctxCancelled,  \* the context handed to ListenAndServe is done
    panicked,      \* the process died of a nil dereference
    lsPc,          \* position of ListenAndServe / serve
    h,             \* the handler ListenAndServe passes to serve
    retErr,        \* the error ListenAndServe returned
    lAck,          \* the acknowledge parameters Listen was given
    hello,         \* the limits the peers propose in the transport handshake
    negotiated,    \* per connection: the limits the handshake settled on
    nextID,        \* id of the next connection Accept yields
    cur,           \* serve's local c: the connection just accepted
    peerOpn,       \* per connection: the peer's secure-channel open request
    tcCloses,      \* per connection: closes of the transport connection
    sechan,        \* per channel: "none", "open", "closed"
    scCfg,         \* per channel: the config NewSecureChannel was given
    hPc,           \* per goroutine: position of handle
    hSechan,       \* per goroutine: handle's sechan argument
    hMsg,          \* per goroutine: handle's local msg (msg.V)
    hErr,          \* per goroutine: msg.Err of the latest Receive
    hSendErr,      \* per goroutine: what SendResponse returned in this iteration
    recvd,         \* per channel: the messages Receive returned
    sent,          \* per channel: the SendResponse calls made on it
    opsBy,         \* per channel: the goroutines that used it
    handlerCalls   \* the ServeOPCUA invocations

srvVars == <<endpointURL, opts, Handler, Ack, cfg, sessionCfg, sl, listener, closeRet>>
lsVars == <<lsPc, h, retErr, lAck, negotiated, nextID, cur>>
connVars == <<tcCloses, sechan, scCfg, hPc, hSechan, hMsg, hErr, hSendErr, recvd, sent, opsBy,
              handlerCalls>>
vars == <<srvVars, lsVars, connVars, ctxCancelled, panicked, peerOpn, hello>>

(* ------------------------- configuration ------------------------------ *)
DefaultServerConfig == [SecurityPolicyURI |-> "None", SecurityMode |-> "None"]

DefaultServerSessionConfig ==
    [ClientDescription |-> [ApplicationURI |-> "urn:gopcua:server",
                            ProductURI |-> "urn:gopcua",
                            ApplicationName |-> "gopcua",
                            ApplicationType |-> "Server"]]

ApplyOption(c, o) ==
    IF o.opt = "SecurityMode" THEN [c EXCEPT !.SecurityMode = o.val]
    ELSE IF o.opt = "SecurityPolicy" THEN [c EXCEPT !.SecurityPolicyURI = o.val]
    ELSE c

RECURSIVE ApplyConfig(_, _)
ApplyConfig(c, os) ==
    IF os = <<>> THEN c ELSE ApplyConfig(ApplyOption(c, Head(os)), Tail(os))

\* NewServer(endpoint, opts...): the Server as constructed
NewServer(endpoint, os) ==
    /\ endpointURL = endpoint
    /\ opts = os
    /\ cfg = ApplyConfig(DefaultServerConfig, os)
    /\ sessionCfg = DefaultServerSessionConfig
    /\ sl = nil

\* the state after NewServer, with Server.Ack drawn from acks and the peers'
\* hello from hellos
InitWith(acks, hellos, optionLists) ==
    /\ \E e \in Endpoints, os \in optionLists : NewServer(e, os)
    /\ Handler \in Handlers
    /\ Ack \in acks
    /\ hello \in hellos
    /\ lAck = NoAck
    /\ negotiated = [c \in Conns |-> NoAck]
    /\ listener = "none"
    /\ closeRet = "none"
    /\ ctxCancelled = FALSE
    /\ panicked = FALSE
    /\ lsPc = "idle"
    /\ h = nil
    /\ retErr = nil
    /\ nextID = 1
    /\ cur = 0
    /\ peerOpn = [c \in Conns |-> "pending"]
    /\ tcCloses = [c \in Conns |-> 0]
    /\ sechan = [c \in Conns |-> "none"]
    /\ scCfg = [c \in Conns |-> NoCfg]
    /\ hPc = [c \in Conns |-> "none"]
    /\ hSechan = [c \in Conns |-> 0]
    /\ hMsg = [c \in Conns |-> NoMsg]
    /\ hErr = [c \in Conns |-> nil]
    /\ hSendErr = [c \in Conns |-> nil]
    /\ recvd = [c \in Conns |-> <<>>]
    /\ sent = [c \in Conns |-> <<>>]
    /\ opsBy = [c \in Conns |-> {}]
    /\ handlerCalls = <<>>

\* Server.Ack is left unset and the peers propose the default limits
Init == InitWith({NoAck}, {DefaultAck}, OptionLists)

\* Server.Ack and the peers' proposals vary
NegInit == InitWith(Acks, Hellos, OptionLists)

\* the server of the example program: NewServer(endpoint), no options
LiveInit == InitWith({NoAck}, {DefaultAck}, {<<>>})

(* --------------------- collaborators (uacp, uasc) ---------------------- *)
\* uacp.Listen: binds the endpoint, or fails
ListenResults == {"ok", ErrListen}

\* Listener.Accept(ctx): a cancelled context or a closed listener ends the
\* wait with the matching error; otherwise a connection or a transport error
AcceptResults ==
    IF ctxCancelled THEN {ErrCanceled}
    ELSE IF listener = "closed" THEN {ErrClosed}
    ELSE {ErrTransport} \cup (IF nextID <= MaxConns THEN {"conn"} ELSE {})

Min(a, b) == IF a <= b THEN a ELSE b

\* the transport handshake of Accept: the effective limit of each field is the
\* lower of the listener's and the peer's
Negotiate(ack, hel) ==
    [ReceiveBufSize |-> Min(ack.ReceiveBufSize, hel.ReceiveBufSize),
     SendBufSize |-> Min(ack.SendBufSize, hel.SendBufSize),
     MaxMessageSize |-> Min(ack.MaxMessageSize, hel.MaxMessageSize),
     MaxChunkCount |-> Min(ack.MaxChunkCount, hel.MaxChunkCount)]

\* uasc.NewSecureChannel runs the open exchange with the peer: it waits for
\* the peer's request and fails when the peer's request is not acceptable
NewSecureChannelWaits(c) == peerOpn[c] = "pending"

NewSecureChannelResult(c) == IF peerOpn[c] = "ok" THEN "ok" ELSE ErrSecureChannel

RECURSIVE SumLen(_, _)
SumLen(f, n) == IF n = 0 THEN 0 ELSE Len(f[n]) + SumLen(f, n - 1)

\* the sequence number of the last message received on channel ch
LastSeq(ch) == IF recvd[ch] = <<>> THEN 0 ELSE recvd[ch][Len(recvd[ch])].seq

\* the sequence numbers the peer may put on its next message: the next one
\* and, once a message was received, the same one again or a lower one
FedSeqs(last) == {last + 1} \cup (IF last > 0 THEN {last, last - 1} ELSE {})

\* Receive of a message of type t with sequence number s on channel ch: a
\* sequence number that does not increase is a protocol error
ReceiveFed(ch, t, s) ==
    IF s > LastSeq(ch)
    THEN [Err |-> nil, V |-> [typ |-> t, chan |-> ch, rid |-> Len(recvd[ch]) + 1, seq |-> s]]
    ELSE [Err |-> ErrProtocol, V |-> NoMsg]

\* SecureChannel.Receive(ctx) on channel ch: the next message of the peer,
\* or an error (closed channel, cancelled context, broken connection,
\* sequence-number violation)
ReceiveResults(ch, ctxDone) ==
    IF sechan[ch] # "open" THEN {[Err |-> ErrClosed, V |-> NoMsg]}
    ELSE IF ctxDone THEN {[Err |-> ErrCanceled, V |-> NoMsg]}
    ELSE {[Err |-> ErrEOF, V |-> NoMsg]} \cup
         {r \in {ReceiveFed(ch, t, s) : t \in MsgTypes, s \in FedSeqs(LastSeq(ch))} :
              r.Err = nil => SumLen(recvd, MaxConns) < MaxMsgs}

\* Listener.Close: closes the listener; on a closed listener it does nothing
\* and returns nil or the listener-closed error
ListenerCloseResults == IF listener = "closed" THEN {nil, ErrClosed} ELSE {nil}

\* SecureChannel.SendResponse: nil, or a write error
SendResponseResults == {nil, ErrWrite}

\* SecureChannel.Close on channel ch: idempotent, the transport connection
\* is released by the first close only
SecureChannelClose(ch) ==
    /\ sechan' = [sechan EXCEPT ![ch] = "closed"]
    /\ tcCloses' = [tcCloses EXCEPT ![ch] = IF sechan[ch] = "open" THEN @ + 1 ELSE @]

(* ------------------------------ Server --------------------------------- *)
\* the parameters as they would be if Server.Ack were ignored
ListenAckDefaultOnly == DefaultAck

\* ListenAndServe: ack := s.Ack; if ack == nil { ack = DefaultAck }
ListenAck == IF Ack = NoAck THEN DefaultAck ELSE Ack

\* ListenAndServe up to the return of uacp.Listen
ListenAndServe(hArg) ==
    /\ ~panicked
    /\ lsPc = "idle"
    /\ h' = IF hArg = nil THEN Handler ELSE hArg
    /\ lAck' = ListenAck
    /\ \E r \in ListenResults :
         IF r = "ok"
         THEN /\ listener' = "open"
              /\ lsPc' = "listened"
              /\ retErr' = retErr
         ELSE /\ listener' = listener
              /\ lsPc' = "returned"
              /\ retErr' = r
    /\ UNCHANGED <<endpointURL, opts, Handler, Ack, cfg, sessionCfg, sl, closeRet,
                   negotiated, nextID, cur, connVars, ctxCancelled, panicked, peerOpn, hello>>

\* ListenAndServe after Listen succeeded: s.l = l; s.cfg = DefaultServerConfig();
\* then serve is entered
ListenAndServeInstall ==
    /\ ~panicked
    /\ lsPc = "listened"
    /\ sl' = "L"
    /\ cfg' = DefaultServerConfig
    /\ lsPc' = "accept"
    /\ UNCHANGED <<endpointURL, opts, Handler, Ack, sessionCfg, listener, closeRet,
                   h, retErr, lAck, negotiated, nextID, cur, connVars, ctxCancelled, panicked, peerOpn, hello>>

\* serve as it would be if a failed Accept were retried instead of returned
serveAcceptRetry ==
    /\ ~panicked
    /\ lsPc = "accept"
    /\ \E r \in AcceptResults :
         IF r = "conn"
         THEN /\ cur' = nextID
              /\ nextID' = nextID + 1
              /\ negotiated' = [negotiated EXCEPT ![nextID] = Negotiate(lAck, hello)]
              /\ lsPc' = "newsc"
         ELSE UNCHANGED <<cur, nextID, negotiated, lsPc>>
    /\ UNCHANGED <<srvVars, h, retErr, lAck, connVars, ctxCancelled, panicked, peerOpn, hello>>

\* serve as it would be if a failed Accept tore down the channels it had opened
serveAcceptTeardown ==
    /\ ~panicked
    /\ lsPc = "accept"
    /\ \E r \in AcceptResults :
         IF r = "conn"
         THEN /\ cur' = nextID
              /\ nextID' = nextID + 1
              /\ negotiated' = [negotiated EXCEPT ![nextID] = Negotiate(lAck, hello)]
              /\ lsPc' = "newsc"
              /\ UNCHANGED <<retErr, sechan, tcCloses>>
         ELSE /\ lsPc' = "returned"
              /\ retErr' = r
              /\ negotiated' = negotiated
              /\ sechan' = [c \in Conns |-> IF sechan[c] = "open" THEN "closed" ELSE sechan[c]]
              /\ tcCloses' = [c \in Conns |-> IF sechan[c] = "open" THEN tcCloses[c] + 1
                                              ELSE tcCloses[c]]
              /\ UNCHANGED <<cur, nextID>>
    /\ UNCHANGED <<srvVars, h, lAck, scCfg, hPc, hSechan, hMsg, hErr, hSendErr, recvd, sent, opsBy,
                   handlerCalls, ctxCancelled, panicked, peerOpn, hello>>

\* serve: c, err := s.l.Accept(ctx); if err != nil { return err }
serveAccept ==
    /\ ~panicked
    /\ lsPc = "accept"
    /\ \E r \in AcceptResults :
         IF r = "conn"
         THEN /\ cur' = nextID
              /\ nextID' = nextID + 1
              /\ negotiated' = [negotiated EXCEPT ![nextID] = Negotiate(lAck, hello)]
              /\ lsPc' = "newsc"
              /\ retErr' = retErr
         ELSE /\ lsPc' = "returned"
              /\ retErr' = r
              /\ UNCHANGED <<cur, nextID, negotiated>>
    /\ UNCHANGED <<srvVars, h, lAck, connVars, ctxCancelled, panicked, peerOpn, hello>>

\* the argument as it would be if every goroutine were given the first channel
SpawnSechanFirst(c) == 1

\* the sechan argument of the goroutine serve starts for connection c
SpawnSechan(c) == c

\* the failure path as it would be without the close of the connection
serveOpenFailedNoClose ==
    /\ lsPc' = "returned"
    /\ retErr' = NewSecureChannelResult(cur)
    /\ UNCHANGED tcCloses

\* serve, NewSecureChannel failed: _ = c.Close(); return err
serveOpenFailed ==
    /\ tcCloses' = [tcCloses EXCEPT ![cur] = @ + 1]
    /\ lsPc' = "returned"
    /\ retErr' = NewSecureChannelResult(cur)

\* serve: uasc.NewSecureChannel; on error close c and return the error,
\* otherwise go s.handle(ctx, c.ID(), sechan)
serveNewSecureChannel ==
    /\ ~panicked
    /\ lsPc = "newsc"
    /\ ~NewSecureChannelWaits(cur)
    /\ IF NewSecureChannelResult(cur) = "ok"
       THEN /\ sechan' = [sechan EXCEPT ![cur] = "open"]
            /\ scCfg' = [scCfg EXCEPT ![cur] = cfg]
            /\ hPc' = [hPc EXCEPT ![cur] = "recv"]
            /\ hSechan' = [hSechan EXCEPT ![cur] = SpawnSechan(cur)]
            /\ lsPc' = "accept"
            /\ UNCHANGED <<tcCloses, retErr>>
       ELSE /\ serveOpenFailed
            /\ UNCHANGED <<sechan, scCfg, hPc, hSechan>>
    /\ UNCHANGED <<srvVars, h, lAck, negotiated, nextID, cur, hMsg, hErr, hSendErr, recvd, sent,
                   opsBy,
                   handlerCalls, ctxCancelled, panicked, peerOpn, hello>>

\* Server.Close as it would be if it cleared s.l after closing the listener
CloseAndClear ==
    /\ ~panicked
    /\ IF sl = nil
       THEN /\ panicked' = TRUE
            /\ UNCHANGED <<listener, closeRet, sl>>
       ELSE /\ listener' = "closed"
            /\ closeRet' \in ListenerCloseResults
            /\ sl' = nil
            /\ panicked' = panicked
    /\ UNCHANGED <<endpointURL, opts, Handler, Ack, cfg, sessionCfg, lsVars, connVars,
                   ctxCancelled, peerOpn, hello>>

\* Server.Close: return s.l.Close(); a nil s.l is dereferenced
Close ==
    /\ ~panicked
    /\ IF sl = nil
       THEN /\ panicked' = TRUE
            /\ UNCHANGED <<listener, closeRet>>
       ELSE /\ listener' = "closed"
            /\ closeRet' \in ListenerCloseResults
            /\ panicked' = panicked
    /\ UNCHANGED <<endpointURL, opts, Handler, Ack, cfg, sessionCfg, sl, lsVars, connVars,
                   ctxCancelled, peerOpn, hello>>

(* ------------------------- connection goroutine ------------------------ *)
Recognized == {"FindServersRequest", "GetEndpointsRequest"}

ApplicationDescription ==
    [ApplicationURI |-> sessionCfg.ClientDescription.ApplicationURI,
     ProductURI |-> sessionCfg.ClientDescription.ProductURI,
     ApplicationName |-> sessionCfg.ClientDescription.ApplicationName,
     ApplicationType |-> sessionCfg.ClientDescription.ApplicationType,
     DiscoveryURLs |-> <<endpointURL>>]

\* the response as it would be if the application URI were given as discovery URL
FindServersResponseByURI ==
    [kind |-> "FindServersResponse",
     Servers |-> << [ApplicationDescription EXCEPT
                       !.DiscoveryURLs = <<sessionCfg.ClientDescription.ApplicationURI>>] >>]

FindServersResponse ==
    [kind |-> "FindServersResponse", Servers |-> <<ApplicationDescription>>]

GetEndpointsResponse ==
    [kind |-> "GetEndpointsResponse",
     Endpoints |-> << [EndpointURL |-> endpointURL,
                       Server |-> ApplicationDescription,
                       SecurityMode |-> cfg.SecurityMode,
                       SecurityPolicyURI |-> cfg.SecurityPolicyURI] >>]

\* sechan.SendResponse(req, resp) as called by goroutine g; the result is dropped
SendResponse(g, req, resp) ==
    /\ sent' = [sent EXCEPT ![hSechan[g]] = Append(@, [req |-> req, resp |-> resp])]
    /\ \E e \in SendResponseResults : hSendErr' = [hSendErr EXCEPT ![g] = e]
    /\ opsBy' = [opsBy EXCEPT ![hSechan[g]] = @ \cup {g}]

handleFindServers(g, req) == SendResponse(g, req, FindServersResponse)

\* handleGetEndpoints as it would be with the response sent a second time
handleGetEndpointsTwice(g, req) ==
    /\ sent' = [sent EXCEPT ![hSechan[g]] =
                     @ \o << [req |-> req, resp |-> GetEndpointsResponse],
                             [req |-> req, resp |-> GetEndpointsResponse] >>]
    /\ \E e \in SendResponseResults : hSendErr' = [hSendErr EXCEPT ![g] = e]
    /\ opsBy' = [opsBy EXCEPT ![hSechan[g]] = @ \cup {g}]

handleGetEndpoints(g, req) == SendResponse(g, req, GetEndpointsResponse)

\* the context as it would be if handle gave Receive a fresh background context
handleCtxBackground == FALSE

\* the context handle hands to Receive: the one ListenAndServe was given
handleCtx == ctxCancelled

\* the loop as it would be if Receive were called while a dispatch is under way
handleAtReceiveEarly(g) == hPc[g] \in {"recv", "dispatch"}

\* handle is at the top of its for loop, about to call Receive
handleAtReceive(g) == hPc[g] = "recv"

\* the error path as it would be if the error were only logged
handleRecvErrLogOnly(g) == UNCHANGED <<sechan, tcCloses, hPc>>

\* the error path as it would be without the return
handleRecvErrNoReturn(g) ==
    /\ SecureChannelClose(hSechan[g])
    /\ UNCHANGED hPc

\* handle, msg.Err != nil: _ = sechan.Close(); return
handleRecvErr(g) ==
    /\ SecureChannelClose(hSechan[g])
    /\ hPc' = [hPc EXCEPT ![g] = "done"]

\* handle: msg := sechan.Receive(ctx); on msg.Err close the channel and return
handleReceive(g) ==
    /\ ~panicked
    /\ handleAtReceive(g)
    /\ \E msg \in ReceiveResults(hSechan[g], handleCtx) :
       /\ hErr' = [hErr EXCEPT ![g] = msg.Err]
       /\ IF msg.Err # nil
          THEN /\ handleRecvErr(g)
               /\ UNCHANGED <<hMsg, recvd>>
          ELSE /\ recvd' = [recvd EXCEPT ![hSechan[g]] = Append(@, msg.V)]
               /\ hMsg' = [hMsg EXCEPT ![g] = msg.V]
               /\ hPc' = [hPc EXCEPT ![g] = "dispatch"]
               /\ UNCHANGED <<sechan, tcCloses>>
    /\ opsBy' = [opsBy EXCEPT ![hSechan[g]] = @ \cup {g}]
    /\ hSendErr' = [hSendErr EXCEPT ![g] = nil]
    /\ UNCHANGED <<srvVars, lsVars, scCfg, hSechan, sent, handlerCalls,
                   ctxCancelled, panicked, peerOpn, hello>>

\* handle as it would be if the default case closed the channel and returned
handleDispatchStrict(g) ==
    /\ ~panicked
    /\ hPc[g] = "dispatch"
    /\ IF hMsg[g].typ = "FindServersRequest"
       THEN /\ handleFindServers(g, hMsg[g])
            /\ hPc' = [hPc EXCEPT ![g] = "recv"]
            /\ UNCHANGED <<sechan, tcCloses>>
       ELSE IF hMsg[g].typ = "GetEndpointsRequest"
       THEN /\ handleGetEndpoints(g, hMsg[g])
            /\ hPc' = [hPc EXCEPT ![g] = "recv"]
            /\ UNCHANGED <<sechan, tcCloses>>
       ELSE /\ SecureChannelClose(hSechan[g])
            /\ hPc' = [hPc EXCEPT ![g] = "done"]
            /\ UNCHANGED <<sent, opsBy, hSendErr>>
    /\ hMsg' = [hMsg EXCEPT ![g] = NoMsg]
    /\ UNCHANGED <<srvVars, lsVars, scCfg, hSechan, hErr, recvd, handlerCalls,
                   ctxCancelled, panicked, peerOpn, hello>>

\* handle: switch req := msg.V.(type), then back to Receive
handleDispatch(g) ==
    /\ ~panicked
    /\ hPc[g] = "dispatch"
    /\ IF hMsg[g].typ = "FindServersRequest" THEN handleFindServers(g, hMsg[g])
       ELSE IF hMsg[g].typ = "GetEndpointsRequest" THEN handleGetEndpoints(g, hMsg[g])
       ELSE UNCHANGED <<sent, opsBy, hSendErr>>
    /\ hPc' = [hPc EXCEPT ![g] = "recv"]
    /\ hMsg' = [hMsg EXCEPT ![g] = NoMsg]
    /\ UNCHANGED <<srvVars, lsVars, tcCloses, sechan, scCfg, hSechan, hErr, recvd, handlerCalls,
                   ctxCancelled, panicked, peerOpn, hello>>

(* ----------------------------- environment ----------------------------- *)
\* the caller cancels the context it gave to ListenAndServe
Cancel ==
    /\ ~panicked
    /\ lsPc # "idle"
    /\ ~ctxCancelled
    /\ ctxCancelled' = TRUE
    /\ UNCHANGED <<srvVars, lsVars, connVars, panicked, peerOpn, hello>>

\* the peer of accepted connection c sends its secure-channel open request
PeerOpen(c) ==
    /\ c < nextID
    /\ peerOpn[c] = "pending"
    /\ \E v \in {"ok", "bad"} : peerOpn' = [peerOpn EXCEPT ![c] = v]
    /\ UNCHANGED <<srvVars, lsVars, connVars, ctxCancelled, panicked, hello>>

Next ==
    \/ \E hArg \in HandlerArgs : ListenAndServe(hArg)
    \/ ListenAndServeInstall
    \/ serveAccept
    \/ serveNewSecureChannel
    \/ Close
    \/ \E g \in Conns : handleReceive(g)
    \/ \E g \in Conns : handleDispatch(g)
    \/ Cancel
    \/ \E c \in Conns : PeerOpen(c)

Spec == Init /\ [][Next]_vars

\* listening and accepting only, for every Server.Ack and every hello
NegNext ==
    \/ \E hArg \in HandlerArgs : ListenAndServe(hArg)
    \/ ListenAndServeInstall
    \/ serveAccept
    \/ serveNewSecureChannel
    \/ \E c \in Conns : PeerOpen(c)

NegSpec == NegInit /\ [][NegNext]_vars

\* the accept loop and the goroutines are scheduled: a step they can take on
\* their own is eventually taken.  Accept and Receive return on their own only
\* once the context is cancelled or the listener / channel is closed; a
\* connection, a message or a broken connection is up to the peer.
LiveNext ==
    \/ \E hArg \in HandlerArgs : ListenAndServe(hArg)
    \/ ListenAndServeInstall
    \/ serveAccept
    \/ serveNewSecureChannel
    \/ \E g \in Conns : handleReceive(g)
    \/ \E g \in Conns : handleDispatch(g)
    \/ Cancel
    \/ \E c \in Conns : PeerOpen(c)

LiveSpec ==
    /\ LiveInit /\ [][LiveNext]_vars
    /\ WF_vars(ListenAndServeInstall)
    /\ WF_vars(serveAccept /\ (ctxCancelled \/ listener = "closed"))
    /\ WF_vars(serveNewSecureChannel)
    /\ \A g \in Conns :
         /\ WF_vars(handleReceive(g) /\ (handleCtx \/ sechan[hSechan[g]] # "open"))
         /\ WF_vars(handleDispatch(g))

TypeOK ==
    /\ lsPc \in {"idle", "listened", "accept", "newsc", "returned"}
    /\ \A c \in Conns : hPc[c] \in {"none", "recv", "dispatch", "done"}
    /\ \A c \in Conns : sechan[c] \in {"none", "open", "closed"}

(* ------------------------------- claims -------------------------------- *)
\* C1: every recognized message whose dispatch has finished was handed to the
\* registered Handler (h) exactly once, and the response sent for it is the
\* one that Handler produced.
C1_HandlerInvokedOnce ==
    \A ch \in Conns : \A k \in DOMAIN recvd[ch] :
        LET req == recvd[ch][k]
            calls == {i \in DOMAIN handlerCalls : handlerCalls[i].req = req}
        IN  (req.typ \in Recognized /\ \A g \in Conns : hMsg[g] # req)
            => /\ Cardinality(calls) = 1
               /\ \A i \in calls : handlerCalls[i].h = h
               /\ \A j \in DOMAIN sent[ch] :
                     sent[ch][j].req = req
                     => \E i \in calls : handlerCalls[i].resp = sent[ch][j].resp

\* C2: ListenAndServe returns only with an error of Listen or of Accept; a
\* failed secure-channel open on one connection never makes it return.
C2_ReturnsOnlyListenerErrors ==
    lsPc = "returned" => retErr \in {ErrListen, ErrClosed, ErrTransport, ErrCanceled}

\* C3: between two Accepts the accept loop is never in a step that waits on
\* the peer of an accepted connection.
C3_AcceptLoopNeverWaitsOnPeer ==
    \A c \in Conns : ~(lsPc = "newsc" /\ cur = c /\ NewSecureChannelWaits(c))

\* C4: a message of an unrecognized type gets no response, leaves the channel
\* open and sends the loop back to Receive; recognized messages that follow
\* unrecognized ones are answered.
C4_UnknownTypeTolerated ==
    /\ [](\A ch \in Conns :
            /\ \A i \in DOMAIN sent[ch] : sent[ch][i].req.typ \in Recognized
            /\ \A k \in DOMAIN recvd[ch] :
                 (/\ recvd[ch][k].typ \in Recognized
                  /\ \E j \in 1..(k - 1) : recvd[ch][j].typ \notin Recognized
                  /\ \A g \in Conns : hMsg[g] # recvd[ch][k])
                 => \E i \in DOMAIN sent[ch] : sent[ch][i].req = recvd[ch][k])
    /\ [][\A g \in Conns :
            (hPc[g] = "dispatch" /\ hMsg[g].typ \notin Recognized /\ hPc'[g] # "dispatch")
            => /\ hPc'[g] = "recv"
               /\ sechan' = sechan
               /\ tcCloses' = tcCloses
               /\ sent' = sent]_vars

C4_Witness ==
    \E ch \in Conns :
        /\ Len(recvd[ch]) = 2
        /\ recvd[ch][1].typ \notin Recognized
        /\ recvd[ch][2].typ \in Recognized
        /\ sechan[ch] = "open"
        /\ hPc[ch] = "recv"
        /\ Len(sent[ch]) = 1
        /\ sent[ch][1].req = recvd[ch][2]

\* C5: SendResponse is called at most once per request, exactly once for a
\* recognized request whose dispatch has finished, with that request as its
\* correlation argument and on the channel the request arrived on.
C5_OneResponsePerRequest ==
    \A ch \in Conns :
        /\ \A i, j \in DOMAIN sent[ch] : sent[ch][i].req = sent[ch][j].req => i = j
        /\ \A i \in DOMAIN sent[ch] :
             /\ sent[ch][i].req.chan = ch
             /\ \E k \in DOMAIN recvd[ch] : recvd[ch][k] = sent[ch][i].req
        /\ \A k \in DOMAIN recvd[ch] :
             (recvd[ch][k].typ \in Recognized /\ \A g \in Conns : hMsg[g] # recvd[ch][k])
             => Cardinality({i \in DOMAIN sent[ch] : sent[ch][i].req = recvd[ch][k]}) = 1

C5_Witness ==
    \E ch \in Conns :
        /\ Len(recvd[ch]) = 2
        /\ \A k \in 1..2 : recvd[ch][k].typ \in Recognized
        /\ Len(sent[ch]) = 2
        /\ hPc[ch] = "recv"

\* C6: channel ch is received on, sent on and closed only by the goroutine
\* started for it, and every response sent on ch answers a request that
\* arrived on ch.
C6_NoCrossTalk ==
    /\ [](\A ch \in Conns :
            /\ opsBy[ch] \subseteq {ch}
            /\ hSechan[ch] \in {0, ch}
            /\ \A i \in DOMAIN sent[ch] : sent[ch][i].req.chan = ch)
    /\ [][\A ch \in Conns :
            (sechan[ch] = "open" /\ sechan'[ch] # "open")
            => (hPc[ch] = "recv" /\ hPc'[ch] = "done")]_vars

C6_Witness ==
    /\ MaxConns >= 2
    /\ \A ch \in 1..2 : /\ Len(sent[ch]) >= 1
                        /\ opsBy[ch] = {ch}
                        /\ sent[ch][1].req.chan = ch

\* C7: a failed Accept makes ListenAndServe return that error and changes
\* nothing of the connections; a goroutine started before ends only in its
\* own Receive step, with its channel closed, and can always take its next step.
C7_AcceptFailureLeavesLoops ==
    /\ [][(lsPc = "accept" /\ lsPc' # "accept" /\ lsPc' # "newsc")
            => /\ lsPc' = "returned"
               /\ retErr' \in {ErrClosed, ErrTransport, ErrCanceled}
               /\ UNCHANGED connVars]_vars
    /\ [][\A g \in Conns :
            (hPc[g] \in {"recv", "dispatch"} /\ hPc'[g] \notin {"recv", "dispatch"})
            => /\ hPc[g] = "recv"
               /\ hPc'[g] = "done"
               /\ sechan'[hSechan[g]] = "closed"]_vars
    /\ [][\A c \in Conns : (sechan[c] = "open" /\ sechan'[c] # "open") => hPc'[c] = "done"]_vars
    /\ [](\A g \in Conns :
            (lsPc = "returned" /\ hPc[g] \in {"recv", "dispatch"})
            => ENABLED (handleReceive(g) \/ handleDispatch(g)))

C7_Witness ==
    /\ lsPc = "returned"
    /\ retErr \in {ErrClosed, ErrTransport}
    /\ \E g \in Conns : /\ hPc[g] = "dispatch"
                        /\ hMsg[g].typ \in Recognized
                        /\ sechan[g] = "open"

\* C8: once the context is cancelled while the accept loop is in Accept,
\* ListenAndServe eventually returns the cancellation error, and the step that
\* returns neither kills the process nor changes any connection.
C8_CancelReturns ==
    /\ (ctxCancelled /\ lsPc = "accept") ~> (lsPc = "returned" /\ retErr = ErrCanceled)
    /\ [][(lsPc = "accept" /\ lsPc' = "returned" /\ ctxCancelled)
            => (~panicked' /\ UNCHANGED connVars)]_vars

C8_Witness ==
    /\ lsPc = "returned"
    /\ retErr = ErrCanceled
    /\ ctxCancelled
    /\ \E g \in Conns : hPc[g] \in {"recv", "dispatch"}

\* C9: whenever ListenAndServe has returned because its context was
\* cancelled, the listener it opened is closed.
C9_CancelledServerClosesListener ==
    (lsPc = "returned" /\ retErr = ErrCanceled) => listener = "closed"

\* C10: the configuration is the one NewServer assembled from its options:
\* Server.cfg never differs from it, and every NewSecureChannel was given it.
C10_ConfigImmutable ==
    /\ cfg = ApplyConfig(DefaultServerConfig, opts)
    /\ \A c \in Conns : scCfg[c] # NoCfg => scCfg[c] = ApplyConfig(DefaultServerConfig, opts)

\* C11: every FindServersRequest whose dispatch has finished was answered, and
\* every answer to a FindServersRequest is a FindServersResponse with exactly
\* one server whose discovery URLs are exactly the configured endpoint URL.
C11_FindServersRoundTrip ==
    \A ch \in Conns :
        /\ \A k \in DOMAIN recvd[ch] :
             (recvd[ch][k].typ = "FindServersRequest" /\ \A g \in Conns : hMsg[g] # recvd[ch][k])
             => \E i \in DOMAIN sent[ch] : sent[ch][i].req = recvd[ch][k]
        /\ \A i \in DOMAIN sent[ch] :
             sent[ch][i].req.typ = "FindServersRequest"
             => /\ sent[ch][i].resp.kind = "FindServersResponse"
                /\ Len(sent[ch][i].resp.Servers) = 1
                /\ sent[ch][i].resp.Servers[1].DiscoveryURLs = <<endpointURL>>

C11_Witness ==
    \E ch \in Conns :
        /\ Len(sent[ch]) = 2
        /\ sent[ch][1].req.typ = "GetEndpointsRequest"
        /\ sent[ch][2].req.typ = "FindServersRequest"
        /\ sent[ch][2].resp.Servers[1].DiscoveryURLs = <<endpointURL>>

C13_SequenceMonotonic ==
    /\ [](\A ch \in Conns : \A k \in 1..(Len(recvd[ch]) - 1) :
            recvd[ch][k].seq < recvd[ch][k + 1].seq)
    /\ [](\A g \in Conns :
            hErr[g] = ErrProtocol => (hPc[g] = "done" /\ sechan[hSechan[g]] = "closed"))
    /\ [][\A g \in Conns :
            (hErr[g] = ErrProtocol \/ hErr'[g] = ErrProtocol)
            => /\ recvd'[hSechan[g]] = recvd[hSechan[g]]
               /\ sent'[hSechan[g]] = sent[hSechan[g]]]_vars

C13_Witness ==
    \E g \in Conns :
        /\ hErr[g] = ErrProtocol
        /\ hPc[g] = "done"
        /\ Len(recvd[g]) >= 1
        /\ sechan[g] = "closed"

\* C15: a goroutine whose Receive returned an error has closed its channel and
\* ended; from then on it stays ended, the channel stays closed, and nothing
\* more is received, sent or done on that channel.
C15_ReceiveErrorTerminates ==
    /\ [](\A g \in Conns :
            /\ hErr[g] # nil => hPc[g] = "done"
            /\ hPc[g] = "done" => (hErr[g] # nil /\ sechan[hSechan[g]] = "closed"))
    /\ [][\A g \in Conns :
            hPc[g] = "done"
            => /\ hPc'[g] = "done"
               /\ sechan'[hSechan[g]] = "closed"
               /\ recvd'[hSechan[g]] = recvd[hSechan[g]]
               /\ sent'[hSechan[g]] = sent[hSechan[g]]
               /\ opsBy'[hSechan[g]] = opsBy[hSechan[g]]]_vars

C15_Witness ==
    \E g \in Conns :
        /\ hPc[g] = "done"
        /\ hErr[g] = ErrEOF
        /\ Len(sent[g]) >= 1
        /\ sechan[g] = "closed"

\* C16: a goroutine whose SendResponse failed has closed its channel and ended.
C16_WriteFailureCloses ==
    \A g \in Conns :
        hSendErr[g] # nil => (hPc[g] = "done" /\ sechan[hSechan[g]] = "closed")

\* C17: no transport connection is closed twice; the connection of a goroutine
\* that ended and the connection whose secure-channel open failed are closed
\* once; a connection is closed only on one of these two paths.
C17_TransportClosedOnce ==
    \A c \in Conns :
        /\ tcCloses[c] <= 1
        /\ hPc[c] = "done" => tcCloses[c] = 1
        /\ (lsPc = "returned" /\ retErr = ErrSecureChannel /\ cur = c) => tcCloses[c] = 1
        /\ tcCloses[c] = 1
           => (hPc[c] = "done" \/ (lsPc = "returned" /\ retErr = ErrSecureChannel /\ cur = c))

C17_Witness ==
    /\ lsPc = "returned"
    /\ retErr = ErrSecureChannel
    /\ tcCloses[cur] = 1
    /\ \E c \in Conns : c # cur /\ hPc[c] = "done" /\ tcCloses[c] = 1

\* C18: on each channel the responses sent are exactly the recognized messages
\* whose dispatch has finished, in the order they were received; a message
\* under dispatch is the last one received, so Receive is not called again
\* before the dispatch returned, and one message at most is under dispatch.
C18_InOrderDispatch ==
    \A ch \in Conns :
        LET n == Len(recvd[ch])
            finished == IF hPc[ch] = "dispatch" THEN n - 1 ELSE n
            IsRecognized(m) == m.typ \in Recognized
            expected == SelectSeq(SubSeq(recvd[ch], 1, finished), IsRecognized)
        IN  /\ hPc[ch] = "dispatch" => (n >= 1 /\ hMsg[ch] = recvd[ch][n])
            /\ hPc[ch] # "dispatch" => hMsg[ch] = NoMsg
            /\ Len(sent[ch]) = Len(expected)
            /\ \A i \in DOMAIN sent[ch] : sent[ch][i].req = expected[i]

C18_Witness ==
    \E ch \in Conns :
        /\ Len(sent[ch]) = 1
        /\ Len(recvd[ch]) = 2
        /\ hPc[ch] = "dispatch"
        /\ hMsg[ch].typ \in Recognized
        /\ sent[ch][1].req = recvd[ch][1]

C20_CloseSafe == ~panicked

\* C14: for the parameters ListenAndServe gives to Listen (Server.Ack, or
\* DefaultAck when it is unset) and the peer's hello, each negotiated limit of
\* an accepted connection is the lower of the two and exceeds neither.
C14_NegotiatedIsMinimum ==
    LET server == IF Ack = NoAck THEN DefaultAck ELSE Ack
    IN  \A c \in Conns : c < nextID =>
          \A f \in {"ReceiveBufSize", "SendBufSize", "MaxMessageSize", "MaxChunkCount"} :
              /\ negotiated[c][f] \in {server[f], hello[f]}
              /\ negotiated[c][f] <= server[f]
              /\ negotiated[c][f] <= hello[f]

C14_Witness ==
    /\ Ack # NoAck
    /\ nextID > 1
    /\ hello.MaxMessageSize > Ack.MaxMessageSize
    /\ hello.MaxChunkCount < Ack.MaxChunkCount
    /\ negotiated[1].MaxMessageSize = Ack.MaxMessageSize
    /\ negotiated[1].MaxChunkCount = hello.MaxChunkCount

====
